---- MODULE Spec2Model ----
(***************************************************************************)
(* Verification model of the two host-bootstrap scripts:                   *)
(*   src/installer.py      hardware-token gate for sudo (udev rule,        *)
(*                         enrollment, backup, PAM stanza edit)            *)
(*   src/ansible_setup.py  control-node bootstrap (identity resolution)    *)
(*                                                                         *)
(* Text is a sequence of one-character strings.  Two words the code looks  *)
(* for are written as single tokens: "A" is the word auth and "U" is the   *)
(* module name pam_u2f.so; "R" is the body of the standard udev rule and   *)
(* "K" is the authfile=<path> cue tail of the inserted stanza.             *)
(***************************************************************************)
EXTENDS Integers, Sequences, FiniteSets, TLC

VARIABLES
    pamFile,      \* /etc/pam.d/sudo: NoFile or its text
    pamBackup,    \* /etc/pam.d/sudo.bak: NoFile or its text
    udevFile,     \* /etc/udev/rules.d/70-u2f.rules: NoFile or its text
    keysFile,     \* ~/.config/Yubico/u2f_keys: NoFile or its content
    tmpFile,      \* ~/.config/Yubico/u2f_keys.tmp: NoFile or its content
    hidraw,       \* whether /dev/hidraw* matches anything right now
    pc,           \* position of the running script ("idle" between runs)
    dry_run,      \* --dry-run
    re_enroll,    \* --re-enroll
    exitCode,     \* exit status of the last finished run (NoExit while running)
    out,          \* messages printed by the current run
    fx,           \* mutating effects performed by the current run
    content,      \* text last read by ensure_pam_sudo_line
    removed,      \* removal count last computed by ensure_pam_sudo_line
    calls,        \* number of direct calls made by a function harness
    snap,         \* files as they were when the current run started
    pamInit,      \* the PAM file as it was in the initial state
    bakInit,      \* the backup as it was in the initial state
    firstOrig,    \* the original as the first backup_file call found it
    explicit_user,\* --user (None when not given)
    environ,      \* SUDO_USER, USER, LOGNAME (None when unset)
    caller,       \* account name of the process's uid (root iff elevated)
    passwd,       \* the account database: name -> [uid, dir, dirExists]
    target        \* resolved (name, home) or None

hostVars == <<pamFile, pamBackup, udevFile, keysFile, tmpFile, hidraw>>
runVars  == <<pc, dry_run, re_enroll, exitCode, out, fx>>
pamVars  == <<content, removed>>
histVars == <<snap, pamInit, bakInit, firstOrig>>
idVars   == <<explicit_user, environ, caller, passwd, target>>
vars     == <<hostVars, runVars, pamVars, calls, histVars, idVars>>

\* a file that does not exist (no text holds this token)
NoFile == <<"<absent>">>
\* the files the installer may touch
Files == [pam |-> pamFile, bak |-> pamBackup, udev |-> udevFile,
          keys |-> keysFile, tmp |-> tmpFile]

None   == "<none>"
NoExit == -1

----------------------------------------------------------------------------
(* Bounds of the model.                                                    *)
MaxLines == 4      \* lines of a generated PAM file
MaxCalls == 3      \* direct calls made by a function harness
MaxRuleLen == 3    \* characters of a generated udev rule file

----------------------------------------------------------------------------
(* Python string primitives, as the code uses them.                        *)

NL == "\n"

\* str.isspace for the characters of the model's alphabet
IsSpace(c) == c \in {" ", NL}

\* "\n".join(lines)
RECURSIVE Join(_)
Join(lines) ==
    IF lines = <<>> THEN <<>>
    ELSE IF Len(lines) = 1 THEN lines[1]
    ELSE lines[1] \o <<NL>> \o Join(Tail(lines))

\* str.splitlines(): a terminator ends a line; a last line without one counts
\* only when it is non-empty
RECURSIVE SplitFrom(_, _, _)
SplitFrom(s, i, cur) ==
    IF i > Len(s) THEN (IF cur = <<>> THEN <<>> ELSE <<cur>>)
    ELSE IF s[i] = NL THEN <<cur>> \o SplitFrom(s, i + 1, <<>>)
    ELSE SplitFrom(s, i + 1, Append(cur, s[i]))

SplitLines(s) == SplitFrom(s, 1, <<>>)

\* str.rstrip()
RECURSIVE RStrip(_)
RStrip(s) ==
    IF s = <<>> THEN <<>>
    ELSE IF IsSpace(s[Len(s)]) THEN RStrip(SubSeq(s, 1, Len(s) - 1))
    ELSE s

\* str.lstrip()
RECURSIVE LStrip(_)
LStrip(s) ==
    IF s = <<>> THEN <<>>
    ELSE IF IsSpace(s[1]) THEN LStrip(Tail(s))
    ELSE s

\* str.strip()
Strip(s) == LStrip(RStrip(s))

\* s.startswith(c) for a one-token prefix
StartsWith(s, c) == s # <<>> /\ s[1] = c

\* c in s for a one-token needle
Contains(s, c) == \E i \in 1..Len(s) : s[i] = c

\* list.insert(idx, x) with 0 <= idx <= len
InsertAt(lines, idx, x) ==
    SubSeq(lines, 1, idx) \o <<x>> \o SubSeq(lines, idx + 1, Len(lines))

----------------------------------------------------------------------------
(* Authentication Stanza Mutator: the text transform of                    *)
(* ensure_pam_sudo_line.                                                   *)

\* pam_line = f"auth required pam_u2f.so authfile={authfile_path} cue"
PamLine == <<"A", " ", "U", " ", "K">>

\* "pam_u2f.so" in line and line.strip().startswith("auth")
IsStanza(line) == Contains(line, "U") /\ StartsWith(Strip(line), "A")

\* the loop that drops every matching line
MutKeepStanzas(lines) == lines
RemoveStanzas(lines) == SelectSeq(lines, LAMBDA l : ~IsStanza(l))

\* while insert_idx < len(new_lines) and new_lines[insert_idx].startswith("#")
RECURSIVE LeadingComments(_)
MutAnyComments(lines) == Len(SelectSeq(lines, LAMBDA l : StartsWith(l, "#")))
LeadingComments(lines) ==
    IF lines # <<>> /\ StartsWith(lines[1], "#")
    THEN 1 + LeadingComments(Tail(lines))
    ELSE 0

\* new_lines with pam_line inserted after the header comments
PlaceStanza(new_lines) == InsertAt(new_lines, LeadingComments(new_lines), PamLine)

\* updated_text = "\n".join(new_lines).rstrip() + "\n"
MutNoRStrip(lines) == Join(lines) \o <<NL>>
Normalize(lines) == RStrip(Join(lines)) \o <<NL>>

\* the text ensure_pam_sudo_line computes from the text it read
UpdatedText(text) == Normalize(PlaceStanza(RemoveStanzas(SplitLines(text))))

\* the removal count it reports
RemovedCount(text) ==
    Len(SplitLines(text)) - Len(RemoveStanzas(SplitLines(text)))

----------------------------------------------------------------------------
(* Printed output: one record per message, text carried where it matters.  *)

Msg(tag) == [tag |-> tag, text |-> <<>>]
MsgText(tag, text) == [tag |-> tag, text |-> text]
Printed(tag) == \E i \in 1..Len(out) : out[i].tag = tag
CountPrinted(tag) == Cardinality({i \in 1..Len(out) : out[i].tag = tag})

\* seq[:n]
Take(seq, n) == SubSeq(seq, 1, IF Len(seq) < n THEN Len(seq) ELSE n)

PreviewLines == 12

\* preview = "\n".join(updated_text.splitlines()[:12])
Preview(updated_text) == Join(Take(SplitLines(updated_text), PreviewLines))

----------------------------------------------------------------------------
(* backup_file(path, dry_run): the backup after the call, and its prints.  *)

MutBackupOverwrites(orig, backup, dr) == IF dr THEN backup ELSE orig
MutBackupSkipsCopy(orig, backup, dr) == backup
BackupAfter(orig, backup, dr) ==
    IF backup # NoFile THEN backup
    ELSE IF dr THEN backup
    ELSE orig

BackupPrints(backup, dr) ==
    IF backup # NoFile THEN <<Msg("backup_exists")>>
    ELSE IF dr THEN <<Msg("backup_creating"), Msg("backup_dry_run")>>
    ELSE <<Msg("backup_creating")>>

\* the effects backup_file adds to the run
BackupFx(backup, dr) ==
    IF backup = NoFile /\ ~dr THEN {"backup"} ELSE {}

----------------------------------------------------------------------------
(* ensure_pam_sudo_line(authfile_path, dry_run) once the file exists:      *)
(* backup, read, transform, then preview or write.                         *)

MutWriteOnDryRun(text, dr) == UpdatedText(text)
PamAfter(text, dr) == IF dr THEN text ELSE UpdatedText(text)

PamPrints(text, dr) ==
    (IF RemovedCount(text) > 0 THEN <<Msg("pam_removed")>> ELSE <<>>)
    \o (IF dr THEN <<MsgText("pam_preview", Preview(UpdatedText(text)))>>
        ELSE <<Msg("pam_ok"), MsgText("pam_inserted", PamLine)>>)

EnsurePamSudoLine(dr, o, f) ==
    /\ pamFile # NoFile
    /\ pamBackup' = BackupAfter(pamFile, pamBackup, dr)
    /\ content' = pamFile
    /\ removed' = RemovedCount(pamFile)
    /\ pamFile' = PamAfter(pamFile, dr)
    /\ out' = o \o <<Msg("pam_step")>> \o BackupPrints(pamBackup, dr)
                \o PamPrints(pamFile, dr)
    /\ fx' = f \cup BackupFx(pamBackup, dr)
              \cup (IF dr THEN {} ELSE {"pam_write"})

----------------------------------------------------------------------------
(* write_udev_rule(dry_run).                                               *)

\* UDEV_RULE_CONTENT: the rule and its line terminator
UdevRuleContent == <<"R", NL>>

\* existing.strip() == UDEV_RULE_CONTENT.strip()
MutRulePresentExact(existing) == existing = UdevRuleContent
RulePresent(existing) == Strip(existing) = Strip(UdevRuleContent)

UdevPrints(existing, dr) ==
    IF existing # NoFile /\ RulePresent(existing)
    THEN <<Msg("udev_step"), Msg("udev_present")>>
    ELSE <<Msg("udev_step")>>
         \o (IF existing # NoFile THEN <<Msg("udev_differs")>> ELSE <<>>)
         \o <<Msg("udev_writing"),
              MsgText("udev_rule_content", Strip(UdevRuleContent))>>
         \o (IF dr THEN <<Msg("udev_dry_run")>> ELSE <<>>)

\* whether the call gets as far as write_text and the udevadm reload
UdevWrites(existing, dr) ==
    ~(existing # NoFile /\ RulePresent(existing)) /\ ~dr

WriteUdevRule(dr, o, f) ==
    /\ udevFile' = IF UdevWrites(udevFile, dr) THEN UdevRuleContent ELSE udevFile
    /\ out' = o \o UdevPrints(udevFile, dr)
    /\ fx' = f \cup (IF UdevWrites(udevFile, dr)
                     THEN {"udev_write", "udev_reload"} ELSE {})

----------------------------------------------------------------------------
(* Identity resolution.  A path is the sequence of its components; an      *)
(* account is passwd[name] = [uid, dir, dirExists].                        *)

NoTarget == [name |-> None, home |-> <<>>]
Account(pw, n) == [name |-> n, home |-> pw[n].dir]

\* a Python string that is neither None nor empty
Truthy(x) == x \notin {None, ""}

\* os.geteuid() == 0
Elevated(who) == who = "root"

MinHomeUid == 1000

\* entry.pw_dir.startswith("/home/")
UnderHome(dir) == Len(dir) >= 2 /\ dir[1] = "home"

\* discover_home_users(): the accounts the elevated fallback may pick
MutDiscoverIgnoresUid(pw) ==
    {n \in DOMAIN pw : n # "root" /\ UnderHome(pw[n].dir) /\ pw[n].dirExists}
DiscoverHomeUsers(pw) ==
    {n \in DOMAIN pw :
        /\ n # "root"
        /\ ~(pw[n].uid < MinHomeUid)
        /\ UnderHome(pw[n].dir)
        /\ pw[n].dirExists}

\* the for loop over SUDO_USER, USER, LOGNAME: the first usable candidate
MutCandidateAllowsRoot(c, pw) == Truthy(c) /\ c \in DOMAIN pw
CandidateOk(c, pw) == Truthy(c) /\ c # "root" /\ c \in DOMAIN pw

FirstCandidate(env, pw) ==
    IF CandidateOk(env.SUDO_USER, pw) THEN env.SUDO_USER
    ELSE IF CandidateOk(env.USER, pw) THEN env.USER
    ELSE IF CandidateOk(env.LOGNAME, pw) THEN env.LOGNAME
    ELSE None

\* resolve_target_user(explicit_user) of ansible_setup.py:
\* [exit |-> it called sys.exit(1), who |-> the pair it returned]
ResolveTargetUser(explicit, env, who, pw) ==
    IF Truthy(explicit)
    THEN IF explicit \in DOMAIN pw
         THEN [exit |-> FALSE, who |-> Account(pw, explicit), auto |-> FALSE]
         ELSE [exit |-> TRUE, who |-> NoTarget, auto |-> FALSE]
    ELSE IF FirstCandidate(env, pw) # None
    THEN [exit |-> FALSE, who |-> Account(pw, FirstCandidate(env, pw)),
          auto |-> FALSE]
    ELSE IF Elevated(who)
    THEN IF Cardinality(DiscoverHomeUsers(pw)) = 1
         THEN [exit |-> FALSE,
               who |-> Account(pw, CHOOSE n \in DiscoverHomeUsers(pw) : TRUE),
               auto |-> TRUE]
         ELSE [exit |-> FALSE, who |-> NoTarget, auto |-> FALSE]
    ELSE [exit |-> FALSE, who |-> Account(pw, who), auto |-> FALSE]

\* get_target_user(explicit_user) of installer.py:
\* u = explicit_user, else os.environ.get("SUDO_USER") or the current user
TargetName(explicit, env, who) ==
    IF Truthy(explicit) THEN explicit
    ELSE IF Truthy(env.SUDO_USER) THEN env.SUDO_USER
    ELSE who

GetTargetUser(explicit, env, who, pw) ==
    IF TargetName(explicit, env, who) \in DOMAIN pw
    THEN [exit |-> FALSE, who |-> Account(pw, TargetName(explicit, env, who))]
    ELSE [exit |-> TRUE, who |-> NoTarget]

----------------------------------------------------------------------------
(* The installer's run, one action per step of main().                     *)

\* sys.exit(code), or an exception that reaches the top level (code 1)
Exit(code) == pc' = "idle" /\ exitCode' = code
Goto(label) == pc' = label /\ exitCode' = exitCode

ExitGeneric == 1
ExitNoHidraw == 2
ExitNoPamFile == 3

\* the order of main(): what follows get_target_user and write_udev_rule
StepAfterTarget == "check_hidraw_1"
MutSkipSecondCheck == "enroll_u2f"
StepAfterUdev == "check_hidraw_2"

StartRun ==
    /\ pc = "idle"
    /\ dry_run' \in BOOLEAN
    /\ re_enroll' \in BOOLEAN
    /\ pc' = "require_root"
    /\ exitCode' = NoExit
    /\ out' = <<>>
    /\ fx' = {}
    /\ snap' = Files
    /\ target' = NoTarget
    /\ UNCHANGED <<hostVars, pamVars, calls, pamInit, bakInit, firstOrig,
                   explicit_user, environ, caller, passwd>>

\* require_root()
RequireRoot ==
    /\ pc = "require_root"
    /\ IF Elevated(caller)
       THEN Goto("get_target_user") /\ out' = out
       ELSE Exit(ExitGeneric) /\ out' = Append(out, Msg("not_root"))
    /\ UNCHANGED <<hostVars, dry_run, re_enroll, fx, pamVars, calls, histVars,
                   idVars>>

\* username, home = get_target_user(args.user)
GetTarget ==
    /\ pc = "get_target_user"
    /\ LET r == GetTargetUser(explicit_user, environ, caller, passwd)
       IN  IF r.exit
           THEN /\ Exit(ExitGeneric)
                /\ out' = Append(out, Msg("unknown_user"))
                /\ target' = target
           ELSE /\ Goto(StepAfterTarget)
                /\ out' = out \o <<Msg("target_user"), Msg("windows_steps")>>
                /\ target' = r.who
    /\ UNCHANGED <<hostVars, dry_run, re_enroll, fx, pamVars, calls, histVars,
                   explicit_user, environ, caller, passwd>>

\* check_hidraw_presence(), at either checkpoint
CheckHidrawPresence(next) ==
    /\ IF hidraw
       THEN Goto(next) /\ out' = out \o <<Msg("hidraw_check"), Msg("hidraw_ok")>>
       ELSE /\ Exit(ExitNoHidraw)
            /\ out' = out \o <<Msg("hidraw_check"), Msg("hidraw_missing")>>
    /\ UNCHANGED <<hostVars, dry_run, re_enroll, fx, pamVars, calls, histVars,
                   idVars>>

CheckHidraw1 == pc = "check_hidraw_1" /\ CheckHidrawPresence("apt_prereq")

CheckHidraw2 == pc = "check_hidraw_2" /\ CheckHidrawPresence("enroll_u2f")

\* apt_install(packages, dry_run, title): apt-get may fail, and the
\* CalledProcessError is not caught
AptInstall(tag, next) ==
    /\ \/ /\ dry_run
          /\ Goto(next)
          /\ out' = out \o <<Msg(tag), Msg("apt_dry_run")>>
          /\ fx' = fx
       \/ /\ ~dry_run
          /\ Goto(next)
          /\ out' = Append(out, Msg(tag))
          /\ fx' = fx \cup {tag}
       \/ /\ ~dry_run
          /\ Exit(ExitGeneric)
          /\ out' = Append(out, Msg(tag))
          /\ fx' = fx
    /\ UNCHANGED <<hostVars, dry_run, re_enroll, pamVars, calls, histVars,
                   idVars>>

AptPrereq == pc = "apt_prereq" /\ AptInstall("apt_prereq", "write_udev_rule")

AptPost == pc = "apt_post" /\ AptInstall("apt_post", "ensure_pam_sudo_line")

\* write_udev_rule(args.dry_run)
WriteUdev ==
    /\ pc = "write_udev_rule"
    /\ WriteUdevRule(dry_run, out, fx)
    /\ Goto(StepAfterUdev)
    /\ UNCHANGED <<pamFile, pamBackup, keysFile, tmpFile, hidraw, dry_run,
                   re_enroll, pamVars, calls, histVars, idVars>>

\* what pamu2fcfg wrote for the user it ran as, or something else
Credential(username, matches) ==
    IF matches THEN <<username, ":", "cred">> ELSE <<"cred">>

\* content.startswith(username + ":")
HasUserPrefix(text, username) ==
    Len(text) >= 2 /\ text[1] = username /\ text[2] = ":"

\* what a failed pamu2fcfg run leaves at tmp_path: nothing when the command
\* never got to its redirection, else whatever was written before it failed
PartialTmp == {NoFile, <<"partial">>}

\* except CalledProcessError: if tmp_path.exists(): tmp_path.unlink()
MutNoCleanup(tmp) == tmp
CleanupTmp(tmp) == IF tmp # NoFile THEN NoFile ELSE tmp

\* raise e: nothing catches it, so the run ends with status 1
MutSwallowEnrollFailure == Goto("apt_post")
RaiseEnrollFailure == Exit(ExitGeneric)

\* enroll_u2f(username, home, args.re_enroll, args.dry_run)
EnrollU2f ==
    /\ pc = "enroll_u2f"
    /\ \/ /\ keysFile # NoFile /\ ~re_enroll
          /\ Goto("apt_post")
          /\ out' = out \o <<Msg("enroll_step"), Msg("enroll_exists")>>
          /\ UNCHANGED <<keysFile, tmpFile, fx>>
       \/ /\ ~(keysFile # NoFile /\ ~re_enroll)
          /\ dry_run
          /\ Goto("apt_post")
          /\ out' = out \o <<Msg("enroll_step"), Msg("enroll_will_write"),
                             Msg("enroll_dry_run")>>
          /\ UNCHANGED <<keysFile, tmpFile, fx>>
       \/ \* pamu2fcfg succeeds: the temporary file is moved into place
          /\ ~(keysFile # NoFile /\ ~re_enroll)
          /\ ~dry_run
          /\ \E matches \in BOOLEAN :
                /\ keysFile' = Credential(target.name, matches)
                /\ out' = out \o <<Msg("enroll_step"), Msg("enroll_will_write"),
                                   Msg("enroll_running"),
                                   IF HasUserPrefix(keysFile', target.name)
                                   THEN Msg("enroll_ok")
                                   ELSE Msg("enroll_prefix_warning")>>
          /\ tmpFile' = NoFile
          /\ fx' = fx \cup {"mkdir", "enroll"}
          /\ Goto("apt_post")
       \/ \* pamu2fcfg fails: the partial temporary file is removed and the
          \* CalledProcessError re-raised
          /\ ~(keysFile # NoFile /\ ~re_enroll)
          /\ ~dry_run
          /\ keysFile' = keysFile
          /\ \E left \in PartialTmp : tmpFile' = CleanupTmp(left)
          /\ out' = out \o <<Msg("enroll_step"), Msg("enroll_will_write"),
                             Msg("enroll_running"), Msg("enroll_failed")>>
          /\ fx' = fx \cup {"mkdir"}
          /\ RaiseEnrollFailure
    /\ UNCHANGED <<pamFile, pamBackup, udevFile, hidraw, dry_run, re_enroll,
                   pamVars, calls, histVars, idVars>>

\* ensure_pam_sudo_line(authfile, args.dry_run), then
\* final_test_instructions() and the end of main()
EnsurePam ==
    /\ pc = "ensure_pam_sudo_line"
    /\ \/ /\ pamFile = NoFile
          /\ Exit(ExitNoPamFile)
          /\ out' = out \o <<Msg("pam_step"), Msg("pam_missing")>>
          /\ UNCHANGED <<pamFile, pamBackup, fx, pamVars>>
       \/ /\ EnsurePamSudoLine(dry_run, out, fx)
          /\ Goto("final")
    /\ UNCHANGED <<udevFile, keysFile, tmpFile, hidraw, dry_run, re_enroll,
                   calls, histVars, idVars>>

Final ==
    /\ pc = "final"
    /\ out' = Append(out, Msg("final_instructions"))
    /\ Exit(0)
    /\ UNCHANGED <<hostVars, dry_run, re_enroll, fx, pamVars, calls, histVars,
                   idVars>>

\* the token is attached to or detached from the distribution (usbipd)
HidrawChange ==
    /\ hidraw' = ~hidraw
    /\ UNCHANGED <<pamFile, pamBackup, udevFile, keysFile, tmpFile, runVars,
                   pamVars, calls, histVars, idVars>>

----------------------------------------------------------------------------
(* Generated PAM files: up to MaxLines lines drawn from LineKinds, with or *)
(* without a final line terminator.                                        *)

LineKinds ==
    { <<>>,                 \* blank line
      <<" ">>,              \* whitespace-only line
      <<"#">>,              \* comment
      <<"x">>,              \* another directive
      <<"A", "x">>,         \* an auth line of another module
      <<"A", "U">>,         \* an existing stanza
      <<" ", "A", "U">>,    \* an indented existing stanza
      <<"#", "A", "U">> }   \* a commented-out stanza

RECURSIVE LineSeqs(_)
LineSeqs(n) ==
    IF n = 0 THEN {<<>>}
    ELSE LineSeqs(n - 1)
         \cup {Append(ls, l) : ls \in LineSeqs(n - 1), l \in LineKinds}

PamTexts(n) ==
    {Join(ls) : ls \in LineSeqs(n)} \cup {Join(ls) \o <<NL>> : ls \in LineSeqs(n)}

\* identity and history values that play no part in a function harness
IdleIdentity ==
    /\ explicit_user = None
    /\ environ = [SUDO_USER |-> None, USER |-> None, LOGNAME |-> None]
    /\ caller = "root"
    /\ passwd = [n \in {"root"} |-> [uid |-> 0, dir |-> <<"root">>, dirExists |-> TRUE]]
    /\ target = NoTarget

IdleRun ==
    /\ pc = "idle"
    /\ re_enroll = FALSE
    /\ exitCode = NoExit
    /\ out = <<>>
    /\ fx = {}
    /\ calls = 0
    /\ content = NoFile
    /\ removed = 0

----------------------------------------------------------------------------
(* SpecMutator: ensure_pam_sudo_line called repeatedly (not dry-run) on a  *)
(* generated PAM file.                                                     *)

InitMutator ==
    /\ pamFile \in PamTexts(MaxLines)
    /\ pamBackup = NoFile
    /\ udevFile = NoFile /\ keysFile = NoFile /\ tmpFile = NoFile
    /\ hidraw = TRUE
    /\ dry_run = FALSE
    /\ IdleRun
    /\ IdleIdentity
    /\ snap = Files /\ pamInit = pamFile /\ bakInit = pamBackup
    /\ firstOrig = NoFile

MutatorCall ==
    /\ pc = "idle"
    /\ calls < MaxCalls
    /\ EnsurePamSudoLine(dry_run, <<>>, {})
    /\ calls' = calls + 1
    /\ snap' = Files
    /\ UNCHANGED <<udevFile, keysFile, tmpFile, hidraw, pc, dry_run, re_enroll,
                   exitCode, pamInit, bakInit, firstOrig, idVars>>

NextMutator == MutatorCall

SpecMutator == InitMutator /\ [][NextMutator]_vars

----------------------------------------------------------------------------
(* SpecBackup: backup_file called repeatedly (not dry-run) on the PAM      *)
(* file, which is edited by hand between the calls.                        *)

\* PAM files of a host: the usual header and include, one that already
\* carries a stanza between comments, one that ends in a blank line
HostPamTexts ==
    { <<"#", NL, "x", NL>>,
      <<"#", NL, "A", "U", NL, "#", NL, "x", NL>>,
      <<"x", NL, NL>> }

InitBackup ==
    /\ pamFile \in HostPamTexts
    /\ pamBackup \in {NoFile, <<"x">>}
    /\ udevFile = NoFile /\ keysFile = NoFile /\ tmpFile = NoFile
    /\ hidraw = TRUE
    /\ dry_run = FALSE
    /\ IdleRun
    /\ IdleIdentity
    /\ snap = Files /\ pamInit = pamFile /\ bakInit = pamBackup
    /\ firstOrig = NoFile

BackupCall ==
    /\ pc = "idle"
    /\ calls < MaxCalls
    /\ pamBackup' = BackupAfter(pamFile, pamBackup, dry_run)
    /\ out' = BackupPrints(pamBackup, dry_run)
    /\ fx' = BackupFx(pamBackup, dry_run)
    /\ firstOrig' = IF calls = 0 THEN pamFile ELSE firstOrig
    /\ calls' = calls + 1
    /\ snap' = Files
    /\ UNCHANGED <<pamFile, udevFile, keysFile, tmpFile, hidraw, pc, dry_run,
                   re_enroll, exitCode, pamVars, pamInit, bakInit, idVars>>

\* a manual edit of the original: any other text, or the stanza mutator's
EditOriginal ==
    /\ pc = "idle"
    /\ pamFile' \in (HostPamTexts \cup {UpdatedText(pamFile)}) \ {pamFile}
    /\ UNCHANGED <<pamBackup, udevFile, keysFile, tmpFile, hidraw, runVars,
                   pamVars, calls, histVars, idVars>>

NextBackup == BackupCall \/ EditOriginal

SpecBackup == InitBackup /\ [][NextBackup]_vars

----------------------------------------------------------------------------
(* SpecRule: write_udev_rule called repeatedly on a generated rule file.   *)

RECURSIVE Strings(_, _)
Strings(alphabet, n) ==
    IF n = 0 THEN {<<>>}
    ELSE Strings(alphabet, n - 1)
         \cup {Append(t, c) : t \in Strings(alphabet, n - 1), c \in alphabet}

RuleTexts == Strings({"R", "x", " ", NL}, MaxRuleLen)

InitRule ==
    /\ udevFile \in RuleTexts \cup {NoFile}
    /\ dry_run \in BOOLEAN
    /\ pamFile = NoFile /\ pamBackup = NoFile
    /\ keysFile = NoFile /\ tmpFile = NoFile
    /\ hidraw = TRUE
    /\ IdleRun
    /\ IdleIdentity
    /\ snap = Files /\ pamInit = pamFile /\ bakInit = pamBackup
    /\ firstOrig = NoFile

RuleCall ==
    /\ pc = "idle"
    /\ calls < MaxCalls
    /\ WriteUdevRule(dry_run, <<>>, {})
    /\ calls' = calls + 1
    /\ snap' = Files
    /\ UNCHANGED <<pamFile, pamBackup, keysFile, tmpFile, hidraw, pc, dry_run,
                   re_enroll, exitCode, pamVars, pamInit, bakInit, firstOrig,
                   idVars>>

NextRule == RuleCall

SpecRule == InitRule /\ [][NextRule]_vars

----------------------------------------------------------------------------
(* Spec: any sequence of installer runs on a host, with the token coming   *)
(* and going.                                                              *)

HostPasswd ==
    [n \in {"root", "alice"} |->
        IF n = "root"
        THEN [uid |-> 0, dir |-> <<"root">>, dirExists |-> TRUE]
        ELSE [uid |-> 1000, dir |-> <<"home", "alice">>, dirExists |-> TRUE]]

NoEnv == [SUDO_USER |-> None, USER |-> None, LOGNAME |-> None]

\* how the installer is invoked on this host: through sudo by alice, from
\* a root shell, without privileges, or for a user that does not exist
Invocations ==
    { [who |-> "root", env |-> [NoEnv EXCEPT !.SUDO_USER = "alice"],
       user |-> None],
      [who |-> "root", env |-> NoEnv, user |-> None],
      [who |-> "alice", env |-> NoEnv, user |-> None],
      [who |-> "root", env |-> NoEnv, user |-> "ghost"] }

Init ==
    /\ pamFile \in HostPamTexts \cup {NoFile}
    /\ pamBackup \in {NoFile, <<"x">>}
    /\ udevFile \in {NoFile, <<NL, "R", NL>>, <<"x", NL>>}
    /\ keysFile \in {NoFile, <<"alice", ":", "old">>}
    /\ tmpFile \in {NoFile, <<"stale">>}
    /\ hidraw \in BOOLEAN
    /\ dry_run = FALSE
    /\ IdleRun
    /\ \E inv \in Invocations :
          /\ caller = inv.who
          /\ environ = inv.env
          /\ explicit_user = inv.user
    /\ passwd = HostPasswd
    /\ target = NoTarget
    /\ snap = Files /\ pamInit = pamFile /\ bakInit = pamBackup
    /\ firstOrig = NoFile

Next ==
    \/ StartRun
    \/ RequireRoot
    \/ GetTarget
    \/ CheckHidraw1
    \/ AptPrereq
    \/ WriteUdev
    \/ CheckHidraw2
    \/ EnrollU2f
    \/ AptPost
    \/ EnsurePam
    \/ Final
    \/ HidrawChange

Spec == Init /\ [][Next]_vars

----------------------------------------------------------------------------
(* SpecIdentity: one run of the bootstrap script's main(), or one direct   *)
(* call of the installer's get_target_user, in a generated environment.    *)

BootstrapExit(code) == pc' = "b_exit" /\ exitCode' = code

\* target_user, target_home = resolve_target_user(args.user), and the
\* check main() makes on the result
BootstrapResolve ==
    /\ pc = "idle"
    /\ LET r == ResolveTargetUser(explicit_user, environ, caller, passwd)
       IN  /\ target' = r.who
           /\ IF r.exit
              THEN /\ BootstrapExit(ExitGeneric)
                   /\ out' = <<Msg("unknown_user")>>
              ELSE IF Elevated(caller) /\ r.who.name = None
              THEN /\ BootstrapExit(ExitGeneric)
                   /\ out' = <<Msg("no_target")>>
              ELSE /\ Goto("b_mkdir")
                   /\ out' = (IF r.auto THEN <<Msg("auto_selected")>> ELSE <<>>)
                             \o (IF r.who.name # None
                                 THEN <<Msg("target_user")>> ELSE <<>>)
                             \o <<Msg("project_base")>>
    /\ UNCHANGED <<hostVars, dry_run, re_enroll, fx, pamVars, calls, histVars,
                   explicit_user, environ, caller, passwd>>

\* a step of main() that creates something: it succeeds, or the command it
\* runs fails and the CalledProcessError ends the run
BootstrapStep(made, next, mayFail) ==
    /\ \/ Goto(next) /\ fx' = fx \cup made
       \/ mayFail /\ BootstrapExit(ExitGeneric) /\ fx' = fx
    /\ UNCHANGED <<hostVars, dry_run, re_enroll, out, pamVars, calls, histVars,
                   idVars>>

\* base.mkdir(parents=True, exist_ok=True)
BootstrapMkdir ==
    pc = "b_mkdir" /\ BootstrapStep({"base_dir"}, "b_apt", FALSE)

\* apt_install(args.skip_apt)
BootstrapApt ==
    /\ pc = "b_apt"
    /\ \E skip_apt \in BOOLEAN :
          IF skip_apt THEN BootstrapStep({}, "b_structure", FALSE)
          ELSE BootstrapStep({"apt"}, "b_structure", TRUE)

\* create_project_structure(base); ensure_files(base)
BootstrapFiles ==
    pc = "b_structure" /\ BootstrapStep({"structure", "files"}, "b_venv", FALSE)

\* create_venv(base); pip_install(venv_dir); galaxy_install(venv_dir)
BootstrapVenv ==
    pc = "b_venv" /\ BootstrapStep({"venv", "pip", "galaxy"}, "b_chown", TRUE)

\* chown_tree(base, target_user) for an elevated caller, print_next_steps
BootstrapFinish ==
    /\ pc = "b_chown"
    /\ fx' = fx \cup (IF Elevated(caller) /\ target.name # None
                      THEN {"chown"} ELSE {})
    /\ out' = Append(out, Msg("next_steps"))
    /\ BootstrapExit(0)
    /\ UNCHANGED <<hostVars, dry_run, re_enroll, pamVars, calls, histVars,
                   idVars>>

\* username, home = get_target_user(args.user), called on its own
GetTargetCall ==
    /\ pc = "idle"
    /\ LET r == GetTargetUser(explicit_user, environ, caller, passwd)
       IN  /\ target' = r.who
           /\ IF r.exit
              THEN /\ pc' = "g_exit" /\ exitCode' = ExitGeneric
                   /\ out' = <<Msg("unknown_user")>>
              ELSE /\ Goto("g_returned")
                   /\ out' = out
    /\ UNCHANGED <<hostVars, dry_run, re_enroll, fx, pamVars, calls, histVars,
                   explicit_user, environ, caller, passwd>>

RootEntry == [uid |-> 0, dir |-> <<"root">>, dirExists |-> TRUE]

\* the entries an ordinary account may have
Entries(n) ==
    [uid : {999, 1000}, dir : {<<"home", n>>, <<"srv", n>>}, dirExists : BOOLEAN]

Passwds ==
    { [n \in {"root"} |-> RootEntry] }
    \cup { [n \in {"root", "alice"} |-> IF n = "root" THEN RootEntry ELSE a] :
              a \in Entries("alice") }
    \cup { [n \in {"root", "bob"} |-> IF n = "root" THEN RootEntry ELSE b] :
              b \in Entries("bob") }
    \cup { [n \in {"root", "alice", "bob"} |->
              IF n = "root" THEN RootEntry ELSE IF n = "alice" THEN ab[1] ELSE ab[2]] :
              ab \in Entries("alice") \X Entries("bob") }

InitIdentity ==
    /\ passwd \in Passwds
    /\ caller \in {"root", "alice"} \cap DOMAIN passwd
    /\ explicit_user \in {None, "alice", "ghost"}
    /\ environ \in [SUDO_USER : {None, "", "root", "alice", "ghost"},
                    USER : {None, "root", "bob"},
                    LOGNAME : {None, "alice"}]
    /\ target = NoTarget
    /\ pamFile = NoFile /\ pamBackup = NoFile /\ udevFile = NoFile
    /\ keysFile = NoFile /\ tmpFile = NoFile
    /\ hidraw = TRUE
    /\ dry_run = FALSE
    /\ IdleRun
    /\ snap = Files /\ pamInit = pamFile /\ bakInit = pamBackup
    /\ firstOrig = NoFile

NextIdentity ==
    \/ BootstrapResolve
    \/ BootstrapMkdir
    \/ BootstrapApt
    \/ BootstrapFiles
    \/ BootstrapVenv
    \/ BootstrapFinish
    \/ GetTargetCall

SpecIdentity == InitIdentity /\ [][NextIdentity]_vars

----------------------------------------------------------------------------
(* Claims about the Authentication Stanza Mutator (SpecMutator).           *)

StanzaCount(text) == Len(SelectSeq(SplitLines(text), IsStanza))
OtherLines(text) == RemoveStanzas(SplitLines(text))
IsBlank(line) == Strip(line) = <<>>

\* number of whitespace-only lines at the end of a list of lines
RECURSIVE TrailingBlank(_)
TrailingBlank(lines) ==
    IF lines # <<>> /\ IsBlank(lines[Len(lines)])
    THEN 1 + TrailingBlank(SubSeq(lines, 1, Len(lines) - 1))
    ELSE 0

\* index (0-based) of the first matching line of a text, -1 when none
StanzaIndex(text) ==
    LET ls == SplitLines(text)
        hits == {i \in 1..Len(ls) : IsStanza(ls[i])}
    IN  IF hits = {} THEN -1
        ELSE (CHOOSE i \in hits : \A j \in hits : i <= j) - 1

\* C1 as stated: after a call the file holds exactly one matching stanza
\* line and as many non-matching lines (blank ones included) as the text
\* the call read.
C1_Original ==
    calls >= 1 =>
        /\ StanzaCount(pamFile) = 1
        /\ Len(OtherLines(pamFile)) = Len(OtherLines(content))

\* C1 amended: after a call the file holds exactly one matching stanza line,
\* and its non-matching lines are as many as those of the text read minus
\* the whitespace-only ones that end them, which the final rstrip() drops.
C1_DedupKeepsOtherLines ==
    calls >= 1 =>
        /\ StanzaCount(pamFile) = 1
        /\ Len(OtherLines(pamFile))
             = Len(OtherLines(content)) - TrailingBlank(OtherLines(content))

\* K >= 2 stanzas removed and a trailing blank line dropped in one call
C1_Witness ==
    /\ calls = 1
    /\ StanzaCount(content) >= 2
    /\ TrailingBlank(OtherLines(content)) >= 1
    /\ Len(OtherLines(pamFile)) >= 1

\* C2 as stated: the stanza sits at the line index equal to the length of
\* the leading block of comment lines of the text the call read.
C2_Original ==
    calls >= 1 => StanzaIndex(pamFile) = LeadingComments(SplitLines(content))

\* C2 amended: the stanza sits at the line index equal to the length of the
\* leading block of comment lines of the text read once its matching stanza
\* lines are removed; every line before it is a comment line, and comments
\* after the first other non-matching line do not count.
C2_InsertAfterHeader ==
    calls >= 1 =>
        LET ls == SplitLines(pamFile)
            k == LeadingComments(OtherLines(content))
        IN  /\ StanzaIndex(pamFile) = k
            /\ ls[k + 1] = PamLine
            /\ \A i \in 1..k : StartsWith(ls[i], "#")
            /\ SubSeq(ls, 1, k) = SubSeq(OtherLines(content), 1, k)

\* a header comment, the stanza, a directive, and a later comment that did
\* not move the insertion point
C2_Witness ==
    /\ calls = 1
    /\ StanzaIndex(pamFile) = 1
    /\ LET ls == SplitLines(pamFile)
       IN  Len(ls) = 4 /\ ~StartsWith(ls[3], "#") /\ StartsWith(ls[4], "#")

\* C3: from the second call on, the call reports a removal count of exactly
\* 1 and leaves the text it read (what the previous call wrote) unchanged.
C3_Convergence ==
    calls >= 2 => (removed = 1 /\ pamFile = content)

\* a second and a third call on a file whose first call removed nothing
C3_Witness ==
    /\ calls = MaxCalls
    /\ StanzaCount(pamInit) = 0
    /\ pamInit # pamFile
    /\ removed = 1

----------------------------------------------------------------------------
(* Claim about the Backup-Then-Mutate Guard (SpecBackup).                  *)

\* C5: once backup_file has been called (not dry-run) on a host that had no
\* backup, the backup holds what the original held at the first call,
\* whatever was done to the original since; it was created exactly once,
\* and every later call reports the existing backup and creates nothing.
C5_BackupSingleCreation ==
    /\ (calls >= 1 /\ bakInit = NoFile) => pamBackup = firstOrig
    /\ (calls >= 1 /\ bakInit # NoFile) => pamBackup = bakInit
    /\ calls >= 2 =>
           /\ pamBackup = snap.bak
           /\ out = <<Msg("backup_exists")>>
           /\ fx = {}

\* three calls, the original edited since the first, the backup still the
\* first call's copy
C5_Witness ==
    /\ calls = MaxCalls
    /\ bakInit = NoFile
    /\ pamFile # firstOrig
    /\ pamFile # pamInit
    /\ pamBackup = firstOrig

----------------------------------------------------------------------------
(* Claim about the Idempotent Rule Writer (SpecRule).                      *)

\* C9 as stated: "already present" exactly when the existing file equals
\* the desired content after trimming trailing whitespace only.
C9_Original ==
    calls >= 1 =>
        (Printed("udev_present")
            <=> (snap.udev # NoFile
                 /\ RStrip(snap.udev) = RStrip(UdevRuleContent)))

\* C9 amended: write_udev_rule reports "already present" (no write, no
\* reload) exactly when the existing file equals the desired content after
\* trimming leading and trailing whitespace; any other existing file is
\* reported as differing and, outside dry-run, overwritten with the desired
\* content (under dry-run it is left as it was).
C9_RuleClassification ==
    calls >= 1 =>
        LET old == snap.udev
            same == old # NoFile /\ Strip(old) = <<"R">>
        IN  /\ Printed("udev_present") <=> same
            /\ same => (udevFile = old /\ fx = {})
            /\ (old # NoFile /\ ~same) =>
                   /\ Printed("udev_differs")
                   /\ udevFile = (IF dry_run THEN old ELSE UdevRuleContent)
                   /\ ("udev_write" \in fx) <=> ~dry_run

\* a file that differs from the desired content only by whitespace around
\* it, leading whitespace included, is left alone
C9_Witness ==
    /\ calls = 1
    /\ snap.udev = <<" ", "R">>
    /\ udevFile = snap.udev
    /\ Printed("udev_present")

----------------------------------------------------------------------------
(* Claims about installer runs (Spec).                                     *)

RunOver == pc = "idle" /\ exitCode # NoExit

\* C4: on a host that started without a backup, whenever the PAM file
\* differs from what it first was, the backup exists and holds that first
\* content.
C4_BackupBeforeWrite ==
    (bakInit = NoFile /\ pamFile # pamInit) => pamBackup = pamInit

\* a real run that started from an already edited PAM file has finished,
\* and the backup is still the pristine text
C4_Witness ==
    /\ RunOver /\ exitCode = 0 /\ ~dry_run
    /\ bakInit = NoFile
    /\ snap.pam # pamInit
    /\ pamFile # pamInit
    /\ pamBackup = pamInit

\* C6: during and after a dry run the rule file, the PAM file, its backup,
\* the enrollment file and its temporary file are exactly as they were when
\* the run started (absent ones stay absent) and no mutating effect has
\* happened; each of the rule-writer, backup and stanza-mutator steps the
\* run reached has printed its preview: the rule it would write (or that it
\* is already present), the backup it would create (or that one exists),
\* and the non-empty leading lines of the text it would write, which carry
\* the stanza.
C6_DryRunNonMutation ==
    dry_run =>
        /\ Files = snap
        /\ fx = {}
        /\ Printed("udev_step") =>
               \/ Printed("udev_present")
               \/ /\ Printed("udev_dry_run")
                  /\ \E i \in 1..Len(out) :
                        out[i].tag = "udev_rule_content" /\ out[i].text # <<>>
        /\ (Printed("pam_step") /\ ~Printed("pam_missing")) =>
               /\ Printed("backup_exists") \/ Printed("backup_dry_run")
               /\ \E i \in 1..Len(out) :
                     /\ out[i].tag = "pam_preview"
                     /\ out[i].text # <<>>
                     /\ \E k \in 1..Len(SplitLines(out[i].text)) :
                           SplitLines(out[i].text)[k] = PamLine
        /\ (RunOver /\ exitCode = 0) =>
               Printed("udev_step") /\ Printed("pam_step")

\* a complete dry run on a host where every step had something to do
C6_Witness ==
    /\ dry_run /\ RunOver /\ exitCode = 0
    /\ snap.udev = NoFile /\ snap.bak = NoFile /\ snap.keys = NoFile
    /\ snap.tmp # NoFile
    /\ StanzaCount(snap.pam) = 1
    /\ Files = snap
    /\ Printed("pam_preview") /\ Printed("backup_dry_run")
    /\ Printed("udev_dry_run") /\ Printed("enroll_dry_run")

PostCheckFx == {"mkdir", "enroll", "apt_post", "backup", "pam_write"}

C10_State ==
    \* package installation and the rule write come after a passed check
    /\ (fx # {} \/ Printed("apt_prereq") \/ Printed("udev_step"))
           => CountPrinted("hidraw_ok") >= 1
    \* the second check comes after the rule write and before enrollment
    /\ CountPrinted("hidraw_check") = 2 => Printed("udev_step")
    /\ (fx \cap PostCheckFx # {} \/ Printed("enroll_step") \/ Printed("pam_step"))
           => CountPrinted("hidraw_ok") = 2
    /\ CountPrinted("hidraw_check") <= 2
    /\ (RunOver /\ exitCode = 0) => CountPrinted("hidraw_ok") = 2
    \* a failed check ends the run with the distinct code, and only it does
    /\ Printed("hidraw_missing") <=> exitCode = ExitNoHidraw
    /\ Printed("hidraw_missing") =>
           /\ RunOver
           /\ fx \cap PostCheckFx = {}
           /\ ~Printed("enroll_step") /\ ~Printed("pam_step")
           /\ pamFile = snap.pam /\ pamBackup = snap.bak
           /\ keysFile = snap.keys /\ tmpFile = snap.tmp
           /\ CountPrinted("hidraw_ok") = 0 => (fx = {} /\ Files = snap)

C10_Step ==
    \* a checkpoint reached while the interface is absent ends the run
    /\ (pc \in {"check_hidraw_1", "check_hidraw_2"} /\ pc' # pc /\ ~hidraw)
           => (pc' = "idle" /\ exitCode' = 2)
    \* nothing but the first checkpoint follows identity resolution, and
    \* nothing but enrollment follows the second checkpoint
    /\ (pc = "get_target_user" /\ pc' \notin {pc, "idle"})
           => pc' = "check_hidraw_1"
    /\ (pc = "write_udev_rule" /\ pc' # pc) => pc' = "check_hidraw_2"
    /\ pc' = "enroll_u2f" => pc \in {"enroll_u2f", "check_hidraw_2"}
    /\ pc' = "apt_prereq" => pc \in {"apt_prereq", "check_hidraw_1"}

\* C10: every run checks for the interface before any package installation
\* or file mutation and again after the rule write and before enrollment;
\* a check that finds it absent ends the run with exit code 2, the only way
\* to that code, and that run has made no enrollment, no backup and no PAM
\* write (and nothing at all when the first check failed).
C10_TwoCheckpoints == []C10_State /\ [][C10_Step]_vars

\* a real run that installed the prerequisites and wrote the rule, then
\* found the interface gone at the second checkpoint
C10_Witness ==
    /\ RunOver /\ exitCode = 2 /\ ~dry_run
    /\ CountPrinted("hidraw_ok") = 1
    /\ {"apt_prereq", "udev_write"} \subseteq fx
    /\ snap.bak = NoFile /\ snap.keys = NoFile /\ snap.pam # NoFile

----------------------------------------------------------------------------
(* Claims about identity resolution (SpecIdentity).                        *)

InBootstrap == pc \in {"b_mkdir", "b_apt", "b_structure", "b_venv", "b_chown", "b_exit"}

\* accounts the elevated fallback may choose from
Eligible ==
    {n \in DOMAIN passwd \ {"root"} :
        /\ passwd[n].uid >= 1000
        /\ passwd[n].dir = <<"home", n>>
        /\ passwd[n].dirExists}

\* C7: for an elevated caller with no --user and none of SUDO_USER, USER,
\* LOGNAME set, the bootstrap selects the one eligible account when there
\* is exactly one, and otherwise selects nothing and ends with exit code 1
\* before anything is created.
C7_ElevatedFallback ==
    (InBootstrap /\ caller = "root" /\ explicit_user = None /\ environ = NoEnv) =>
        IF Cardinality(Eligible) = 1
        THEN /\ target.name \in Eligible
             /\ target.home = <<"home", target.name>>
             /\ Printed("auto_selected")
             /\ ~Printed("no_target")
        ELSE /\ pc = "b_exit"
             /\ exitCode = 1
             /\ target = NoTarget
             /\ Printed("no_target")
             /\ fx = {}

\* alice is picked although bob also has a home: bob's uid is below 1000
C7_Witness ==
    /\ pc = "b_apt" /\ "base_dir" \in fx
    /\ caller = "root" /\ explicit_user = None /\ environ = NoEnv
    /\ DOMAIN passwd = {"root", "alice", "bob"}
    /\ passwd["bob"].uid = 999 /\ passwd["bob"].dirExists
    /\ passwd["bob"].dir = <<"home", "bob">>
    /\ target.name = "alice"

----------------------------------------------------------------------------
(* Claims about enrollment and the PAM edit (Spec).                        *)

\* C11: a run (not dry-run, with or without --re-enroll) whose enrollment
\* command failed has ended with status 1; the temporary enrollment file
\* does not exist, the enrollment file is as it was when the run started,
\* and the run has neither created the backup nor written the PAM file.
C11_EnrollFailureCleanup ==
    Printed("enroll_failed") =>
        /\ RunOver
        /\ exitCode = 1
        /\ ~dry_run
        /\ tmpFile = NoFile
        /\ keysFile = snap.keys
        /\ pamFile = snap.pam
        /\ pamBackup = snap.bak
        /\ fx \cap {"enroll", "apt_post", "backup", "pam_write"} = {}
        /\ ~Printed("pam_step")

\* --re-enroll over an existing enrollment file, with a stale temporary
\* file around and no backup yet: the command failed
C11_Witness ==
    /\ Printed("enroll_failed")
    /\ re_enroll
    /\ snap.keys # NoFile /\ keysFile = snap.keys
    /\ snap.tmp # NoFile /\ tmpFile = NoFile
    /\ snap.bak = NoFile /\ snap.pam # NoFile

\* C12: a run that is not a dry run stands at the PAM edit, or has written
\* the PAM file, only while the enrollment file exists: either it was there
\* when the run started and was kept because --re-enroll was not given, or
\* a successful enrollment of this run moved it into place; no such run
\* gets there after a failed or skipped enrollment.
C12_LockoutGuard ==
    ((pc = "ensure_pam_sudo_line" \/ "pam_write" \in fx) /\ ~dry_run) =>
        /\ keysFile # NoFile
        /\ ~Printed("enroll_failed")
        /\ ~Printed("enroll_dry_run")
        /\ \/ /\ Printed("enroll_exists")
              /\ ~re_enroll
              /\ snap.keys # NoFile
              /\ keysFile = snap.keys
           \/ /\ "enroll" \in fx
              /\ Printed("enroll_ok") \/ Printed("enroll_prefix_warning")

\* a first real run on a host without an enrollment file: the enrollment
\* succeeded and the PAM file was written
C12_Witness ==
    /\ RunOver /\ exitCode = 0 /\ ~dry_run
    /\ "pam_write" \in fx /\ "enroll" \in fx
    /\ snap.keys = NoFile /\ keysFile # NoFile
    /\ pamFile # snap.pam

====
